---- MODULE Spec2Model ----
(***************************************************************************)
(* Model of sdk/src/backend/splinter.rs: the Splinter backend client of    *)
(* Grid.  A string is a sequence of one-character strings, so that        *)
(* splitting, joining and URL construction are computed character by       *)
(* character as the code computes them.                                    *)
(***************************************************************************)
EXTENDS Integers, Sequences, FiniteSets, TLC

VARIABLES
    node_url, authorization,   \* SplinterBackendClient's fields
    pc,                        \* "not_started", "in_flight" or "completed"
    op,                        \* the operation invoked
    msg,                       \* its argument
    requests,                  \* the HTTP requests the invocation has issued
    link,                      \* the link the submit closure captured
    response,                  \* what the transport handed to the closure
    result,                    \* the output of the returned future
    rs_s, rs_res,              \* from_str: input and result
    nb_in, nb_out              \* From<SplinterBatchStatus>: input and result

vars == <<node_url, authorization, pc, op, msg, requests, link, response, result,
          rs_s, rs_res, nb_in, nb_out>>

clientVars == <<node_url, authorization, pc, op, msg, requests, link, response, result>>
resolverVars == <<rs_s, rs_res>>
normalizeVars == <<nb_in, nb_out>>

(* Option<T> *)
None == [some |-> FALSE]
Some(x) == [some |-> TRUE, value |-> x]

(* A result not yet produced. *)
Pending == [kind |-> "Pending"]

(***************************************************************************)
(* Bounds.                                                                 *)
(***************************************************************************)
MaxLen == 7
MaxBatches == 2
MaxIds == 2
MaxMsgs == 2

(* All sequences over S of length at most n. *)
SeqsUpTo(S, n) == UNION {[1..k -> S] : k \in 0..n}

(***************************************************************************)
(* String helpers.                                                         *)
(***************************************************************************)
RECURSIVE Concat(_)
Concat(ss) == IF ss = <<>> THEN <<>> ELSE Head(ss) \o Concat(Tail(ss))

(* [String]::join(sep) *)
RECURSIVE Join(_, _)
Join(ss, sep) ==
    IF ss = <<>> THEN <<>>
    ELSE IF Len(ss) = 1 THEN ss[1]
    ELSE ss[1] \o sep \o Join(Tail(ss), sep)

(* Position of the leftmost occurrence of pat in s, 0 if there is none. *)
Find(s, pat) ==
    LET hits == {i \in 1..(Len(s) - Len(pat) + 1) : SubSeq(s, i, i + Len(pat) - 1) = pat}
    IN IF hits = {} THEN 0 ELSE CHOOSE i \in hits : \A j \in hits : i <= j

(* str::split(pat): the substrings between the leftmost, non-overlapping  *)
(* occurrences of pat; a string without pat (the empty string too) gives   *)
(* one segment, the string itself.                                         *)
RECURSIVE Split(_, _)
Split(s, pat) ==
    LET i == Find(s, pat)
    IN IF i = 0 THEN <<s>>
       ELSE <<SubSeq(s, 1, i - 1)>> \o Split(SubSeq(s, i + Len(pat), Len(s)), pat)

(***************************************************************************)
(* Errors and results.                                                     *)
(***************************************************************************)
BadRequestError(text) == [kind |-> "BadRequest", message |-> text]
InternalError(text) == [kind |-> "InternalError", message |-> text]
Ok(v) == [kind |-> "Ok", value |-> v]

(***************************************************************************)
(* SplinterService::from_str                                               *)
(***************************************************************************)
Delim == <<":", ":">>

(* from_str taking the last segment as the service id. *)
from_str_last_segment(s) ==
    LET parts == Split(s, Delim)
    IN IF Len(parts) < 2
       THEN BadRequestError(
              <<"Must provide a fully-qualified service_id: <circuit_id>::<service_id>">>)
       ELSE Ok([circuit_id |-> parts[1], service_id |-> parts[Len(parts)]])

from_str(s) ==
    LET parts == Split(s, Delim)
    IN IF Len(parts) < 1
       THEN BadRequestError(<<"Empty service_id parameter provided">>)
       ELSE IF Len(parts) < 2
       THEN BadRequestError(
              <<"Must provide a fully-qualified service_id: <circuit_id>::<service_id>">>)
       ELSE Ok([circuit_id |-> parts[1], service_id |-> parts[2]])

(***************************************************************************)
(* The resolver on its own: every string over a small alphabet.            *)
(***************************************************************************)
Alphabet == {"a", "b", ":"}

InitClientIdle ==
    /\ node_url = <<>>
    /\ authorization = <<>>
    /\ pc = "not_started"
    /\ op = "none"
    /\ msg = None
    /\ requests = <<>>
    /\ link = None
    /\ response = None
    /\ result = Pending

InitResolverIdle == rs_s = <<>> /\ rs_res = Pending
InitNormalizeIdle == nb_in = None /\ nb_out = Pending

InitResolver ==
    /\ rs_s \in SeqsUpTo(Alphabet, MaxLen)
    /\ rs_res = Pending
    /\ InitClientIdle
    /\ InitNormalizeIdle

Resolve ==
    /\ rs_res = Pending
    /\ rs_res' = from_str(rs_s)
    /\ UNCHANGED <<rs_s, clientVars, normalizeVars>>

NextResolver == Resolve

SpecResolver == InitResolver /\ [][NextResolver]_vars

(***************************************************************************)
(* base64::encode: the standard alphabet, padded with "=".                 *)
(***************************************************************************)
B64Chars ==
    <<"A","B","C","D","E","F","G","H","I","J","K","L","M","N","O","P",
      "Q","R","S","T","U","V","W","X","Y","Z","a","b","c","d","e","f",
      "g","h","i","j","k","l","m","n","o","p","q","r","s","t","u","v",
      "w","x","y","z","0","1","2","3","4","5","6","7","8","9","+","/">>

B64(n) == B64Chars[n + 1]

RECURSIVE base64_encode(_)
base64_encode(bytes) ==
    IF Len(bytes) = 0 THEN <<>>
    ELSE IF Len(bytes) = 1
    THEN <<B64(bytes[1] \div 4), B64((bytes[1] % 4) * 16), "=", "=">>
    ELSE IF Len(bytes) = 2
    THEN <<B64(bytes[1] \div 4),
           B64((bytes[1] % 4) * 16 + bytes[2] \div 16),
           B64((bytes[2] % 16) * 4), "=">>
    ELSE <<B64(bytes[1] \div 4),
           B64((bytes[1] % 4) * 16 + bytes[2] \div 16),
           B64((bytes[2] % 16) * 4 + bytes[3] \div 64),
           B64(bytes[3] % 64)>>
         \o base64_encode(SubSeq(bytes, 4, Len(bytes)))

(***************************************************************************)
(* impl From<SplinterBatchStatus> for BatchStatus                          *)
(***************************************************************************)
BothPresent(message) == message.error_message.some /\ message.error_data.some

(* The id and the message of the entry mixed up. *)
InvalidTransaction_swapped(message) ==
    [id |-> message.error_message.value,
     message |-> message.transaction_id,
     extended_data |-> base64_encode(message.error_data.value)]

InvalidTransaction(message) ==
    [id |-> message.transaction_id,
     message |-> message.error_message.value,
     extended_data |-> base64_encode(message.error_data.value)]

from(batch_status) ==
    LET kept == SelectSeq(batch_status.status.message, BothPresent)
    IN [id |-> batch_status.id,
        status |-> batch_status.status.status_type,
        invalid_transactions |-> [i \in 1..Len(kept) |-> InvalidTransaction(kept[i])]]

(***************************************************************************)
(* The normalization on its own: every status over small sets of fields.   *)
(***************************************************************************)
DataSamples == {<<>>, <<255>>, <<0, 16>>, <<1, 2, 3>>, <<250, 251, 252, 253>>}

ErrorMessages ==
    [transaction_id : {"t1", "t2"},
     error_message : {None, Some("bad")},
     error_data : {None} \cup {Some(d) : d \in DataSamples}]

SplinterBatchStatuses ==
    [id : {"b1"},
     status : [status_type : {"INVALID", "COMMITTED"},
               message : SeqsUpTo(ErrorMessages, MaxMsgs)]]

InitNormalize ==
    /\ nb_in \in {Some(s) : s \in SplinterBatchStatuses}
    /\ nb_out = Pending
    /\ InitClientIdle
    /\ InitResolverIdle

Normalize ==
    /\ nb_in.some
    /\ nb_out = Pending
    /\ nb_out' = Ok(from(nb_in.value))
    /\ UNCHANGED <<nb_in, clientVars, resolverVars>>

NextNormalize == Normalize

SpecNormalize == InitNormalize /\ [][NextNormalize]_vars

(***************************************************************************)
(* Literals of the two URL builders.                                       *)
(***************************************************************************)
ScabbardPath == <<"/", "s", "c", "a", "b", "b", "a", "r", "d", "/">>
Slash == <<"/">>
BatchesPath == <<"/", "b", "a", "t", "c", "h", "e", "s">>
BatchStatusesPath ==
    <<"/", "b", "a", "t", "c", "h", "_", "s", "t", "a", "t", "u", "s", "e", "s", "?">>
WaitEq == <<"w", "a", "i", "t", "=">>
Amp == <<"&">>
IdsEq == <<"i", "d", "s", "=">>
IdEq == <<"i", "d", "=">>
Comma == <<",">>

(* u32::to_string: decimal digits, most significant first. *)
Digits == <<"0", "1", "2", "3", "4", "5", "6", "7", "8", "9">>

RECURSIVE to_string(_)
to_string(n) ==
    IF n < 10 THEN <<Digits[n + 1]>>
    ELSE to_string(n \div 10) \o <<Digits[(n % 10) + 1]>>

(* url::Url: what precedes the query, the query and the fragment. *)
set_query(u, q) == [u EXCEPT !.query = q]

url_to_string(u) ==
    u.base
    \o (IF u.query.some THEN <<"?">> \o u.query.value ELSE <<>>)
    \o (IF u.fragment.some THEN <<"#">> \o u.fragment.value ELSE <<>>)

(* protobuf::Message::write_to_bytes: fails on a message that is not       *)
(* initialized; the bytes are an opaque encoding of the batches.           *)
write_to_bytes(batch_list) ==
    IF batch_list.initialized
    THEN Ok([encoded |-> batch_list.batches])
    ELSE [kind |-> "Err", err |-> "not all message fields are initialized"]

(* The signatures collected back to front. *)
get_header_signatures_reversed(batch_list) ==
    [i \in 1..Len(batch_list.batches) |->
        batch_list.batches[Len(batch_list.batches) + 1 - i].header_signature]

get_header_signatures(batch_list) ==
    [i \in 1..Len(batch_list.batches) |-> batch_list.batches[i].header_signature]

(* reqwest::Response::json: the body decodes into Vec<SplinterBatchStatus> *)
(* or the decoding fails.                                                  *)
json(res) ==
    IF res.body.decodes
    THEN Ok(res.body.statuses)
    ELSE [kind |-> "Err", err |-> "error decoding response body"]

(***************************************************************************)
(* submit_batches: the synchronous part, up to and including send().       *)
(* The outcome is the state the invocation is left in.                     *)
(***************************************************************************)
Completed(res) ==
    [pc |-> "completed", requests |-> <<>>, link |-> None, result |-> res]

InFlight(req, l) ==
    [pc |-> "in_flight", requests |-> <<req>>, link |-> l, result |-> Pending]

(* The request sent before the batch list is serialized. *)
submit_batches_send_first(m) ==
    IF ~m.service_id.some
    THEN Completed(BadRequestError(<<"A service id must be provided">>))
    ELSE LET service_info == from_str(m.service_id.value)
         IN IF service_info.kind # "Ok" THEN Completed(service_info)
            ELSE
            LET url == Concat(<<node_url, ScabbardPath, service_info.value.circuit_id,
                                Slash, service_info.value.service_id, BatchesPath>>)
                batch_list_bytes == write_to_bytes(m.batch_list)
                batch_query == Join(get_header_signatures(m.batch_list), Comma)
                response_url == set_query(m.response_url, Some(IdEq \o batch_query))
                sent == InFlight([method |-> "POST",
                                  url |-> url,
                                  headers |-> [GridProtocolVersion |-> "1",
                                               ContentType |-> "octet-stream",
                                               Authorization |-> authorization],
                                  body |-> IF batch_list_bytes.kind = "Ok"
                                           THEN Some(batch_list_bytes.value)
                                           ELSE None],
                                 Some(url_to_string(response_url)))
            IN IF batch_list_bytes.kind # "Ok"
               THEN [sent EXCEPT !.pc = "completed",
                                 !.result = BadRequestError(
                                     <<"Malformed batch list: ", batch_list_bytes.err>>)]
               ELSE sent

submit_batches(m) ==
    IF ~m.service_id.some
    THEN Completed(BadRequestError(<<"A service id must be provided">>))
    ELSE LET service_info == from_str(m.service_id.value)
         IN IF service_info.kind # "Ok" THEN Completed(service_info)
            ELSE
            LET url == Concat(<<node_url, ScabbardPath, service_info.value.circuit_id,
                                Slash, service_info.value.service_id, BatchesPath>>)
                batch_list_bytes == write_to_bytes(m.batch_list)
            IN IF batch_list_bytes.kind # "Ok"
               THEN Completed(BadRequestError(
                        <<"Malformed batch list: ", batch_list_bytes.err>>))
               ELSE
               LET batch_query == Join(get_header_signatures(m.batch_list), Comma)
                   response_url == set_query(m.response_url, Some(IdEq \o batch_query))
               IN InFlight([method |-> "POST",
                            url |-> url,
                            headers |-> [GridProtocolVersion |-> "1",
                                         ContentType |-> "octet-stream",
                                         Authorization |-> authorization],
                            body |-> Some(batch_list_bytes.value)],
                           Some(url_to_string(response_url)))

(* The closure with the status code checked, as error_for_status would. *)
submit_batches_then_checks_status(res, l) ==
    IF res.ok /\ res.status < 400
    THEN Ok([link |-> l])
    ELSE InternalError(<<"Unable to submit batch: ",
                         IF res.ok THEN "HTTP status client or server error" ELSE res.err>>)

(* The closure given to then() in submit_batches. *)
submit_batches_then(res, l) ==
    IF res.ok
    THEN Ok([link |-> l])
    ELSE InternalError(<<"Unable to submit batch: ", res.err>>)

(***************************************************************************)
(* batch_status                                                            *)
(***************************************************************************)
(* The URL with the ids put before the wait. *)
batch_status_url_ids_first(service_info, m) ==
    Concat(<<node_url, ScabbardPath, service_info.circuit_id, Slash,
             service_info.service_id, BatchStatusesPath,
             IdsEq, Join(m.batch_ids, Comma),
             IF m.wait.some THEN Concat(<<Amp, WaitEq, to_string(m.wait.value)>>)
                            ELSE <<>>>>)

batch_status_url(service_info, m) ==
    Concat(<<node_url, ScabbardPath, service_info.circuit_id, Slash,
             service_info.service_id, BatchStatusesPath,
             IF m.wait.some THEN Concat(<<WaitEq, to_string(m.wait.value), Amp>>)
                            ELSE <<>>,
             IdsEq, Join(m.batch_ids, Comma)>>)

batch_status(m) ==
    IF ~m.service_id.some
    THEN Completed(BadRequestError(<<"A service id must be provided">>))
    ELSE LET service_info == from_str(m.service_id.value)
         IN IF service_info.kind # "Ok" THEN Completed(service_info)
            ELSE InFlight([method |-> "GET",
                           url |-> batch_status_url(service_info.value, m),
                           headers |-> [GridProtocolVersion |-> "1",
                                        Authorization |-> authorization],
                           body |-> None],
                          None)

(* A transport error reported as a bad request. *)
batch_status_then_bad_request(res) ==
    LET parsed == IF res.ok THEN json(res) ELSE [kind |-> "Err", err |-> res.err]
    IN IF parsed.kind = "Ok"
       THEN Ok([i \in 1..Len(parsed.value) |-> from(parsed.value[i])])
       ELSE IF res.ok
       THEN InternalError(<<"Unable to retrieve batch statuses: ", parsed.err>>)
       ELSE BadRequestError(<<"Unable to retrieve batch statuses: ", parsed.err>>)

(* The closures given to then() and map() in batch_status. *)
batch_status_then(res) ==
    LET parsed == IF res.ok THEN json(res) ELSE [kind |-> "Err", err |-> res.err]
    IN IF parsed.kind = "Ok"
       THEN Ok([i \in 1..Len(parsed.value) |-> from(parsed.value[i])])
       ELSE InternalError(<<"Unable to retrieve batch statuses: ", parsed.err>>)

(***************************************************************************)
(* The inputs of the client.                                               *)
(***************************************************************************)
NodeUrls == {<<"h", "t", "t", "p", ":", "/", "/", "n">>,
             <<"h", "t", "t", "p", ":", "/", "/", "m", ":", "8", "0">>}
Authorizations == {<<"B", "e", "a", "r", "e", "r", " ", "k">>}

ServiceIds ==
    {None,
     Some(<<>>),
     Some(<<"o", "n", "e">>),
     Some(<<"c", "1", ":", ":", "s", "1">>),
     Some(<<"c", "1", ":", ":">>),
     Some(<<":", ":", "s", "1">>),
     Some(<<"c", "1", ":", ":", "s", "1", ":", ":", "x">>)}

HeaderSignatures == {<<"s", "i", "g", "-", "a">>, <<"s", "i", "g", "-", "b">>}

BatchLists ==
    [batches : SeqsUpTo([header_signature : HeaderSignatures], MaxBatches),
     initialized : BOOLEAN]

ResponseUrls ==
    {[base |-> <<"h", ":", "/", "/", "g", "/", "s">>, query |-> None, fragment |-> None],
     [base |-> <<"h", ":", "/", "/", "g", "/", "s">>,
      query |-> Some(<<"x", "=", "1">>), fragment |-> None],
     [base |-> <<"h", ":", "/", "/", "g", "/", "s">>,
      query |-> None, fragment |-> Some(<<"f">>)]}

SubmitBatchesMsgs ==
    [service_id : ServiceIds, batch_list : BatchLists, response_url : ResponseUrls]

BatchIds == {<<"i", "d", "1">>, <<"i", "d", "2">>}
Waits == {None, Some(0), Some(7), Some(30), Some(105)}

BatchStatusesMsgs ==
    [service_id : ServiceIds, batch_ids : SeqsUpTo(BatchIds, MaxIds), wait : Waits]

(* What the transport can hand back: a response, whatever its status code  *)
(* and body, or an error.                                                  *)
SpecExampleStatus ==
    [id |-> "b1",
     status |-> [status_type |-> "INVALID",
                 message |-> <<[transaction_id |-> "t1",
                                error_message |-> Some("bad"),
                                error_data |-> Some(<<1, 2, 3>>)],
                               [transaction_id |-> "t2",
                                error_message |-> None,
                                error_data |-> None]>>]]

CommittedStatus ==
    [id |-> "b2", status |-> [status_type |-> "COMMITTED", message |-> <<>>]]

Bodies ==
    {[decodes |-> FALSE, statuses |-> <<>>],
     [decodes |-> TRUE, statuses |-> <<>>],
     [decodes |-> TRUE, statuses |-> <<SpecExampleStatus>>],
     [decodes |-> TRUE, statuses |-> <<CommittedStatus, SpecExampleStatus>>]}

StatusCodes == {200, 404, 500}

TransportErrors == {"connection refused", "operation timed out"}

TransportResults ==
    [ok : {TRUE}, status : StatusCodes, body : Bodies]
    \cup [ok : {FALSE}, err : TransportErrors]

(***************************************************************************)
(* The client: one invocation of one of the two operations.                *)
(***************************************************************************)
Init ==
    /\ node_url \in NodeUrls
    /\ authorization \in Authorizations
    /\ pc = "not_started"
    /\ op = "none"
    /\ msg = None
    /\ requests = <<>>
    /\ link = None
    /\ response = None
    /\ result = Pending
    /\ InitResolverIdle
    /\ InitNormalizeIdle

Enter(name, m, out) ==
    /\ op' = name
    /\ msg' = Some(m)
    /\ pc' = out.pc
    /\ requests' = requests \o out.requests
    /\ link' = out.link
    /\ result' = out.result
    /\ UNCHANGED <<node_url, authorization, response, resolverVars, normalizeVars>>

SubmitBatches ==
    /\ pc = "not_started"
    /\ \E m \in SubmitBatchesMsgs : Enter("submit_batches", m, submit_batches(m))

(* The closure sending the request again after a transport error. *)
SubmitBatchesThen_retry ==
    /\ pc = "in_flight"
    /\ op = "submit_batches"
    /\ \E res \in TransportResults :
        /\ response' = Some(res)
        /\ IF res.ok
           THEN /\ result' = submit_batches_then(res, link.value)
                /\ pc' = "completed"
                /\ requests' = requests
           ELSE /\ result' = Pending
                /\ pc' = IF Len(requests) < 2 THEN "in_flight" ELSE "completed"
                /\ requests' = IF Len(requests) < 2 THEN requests \o requests ELSE requests
    /\ UNCHANGED <<node_url, authorization, op, msg, link, resolverVars, normalizeVars>>

SubmitBatchesThen ==
    /\ pc = "in_flight"
    /\ op = "submit_batches"
    /\ \E res \in TransportResults :
        /\ response' = Some(res)
        /\ result' = submit_batches_then(res, link.value)
    /\ pc' = "completed"
    /\ UNCHANGED <<node_url, authorization, op, msg, requests, link,
                   resolverVars, normalizeVars>>

BatchStatus ==
    /\ pc = "not_started"
    /\ \E m \in BatchStatusesMsgs : Enter("batch_status", m, batch_status(m))

BatchStatusThen ==
    /\ pc = "in_flight"
    /\ op = "batch_status"
    /\ \E res \in TransportResults :
        /\ response' = Some(res)
        /\ result' = batch_status_then(res)
    /\ pc' = "completed"
    /\ UNCHANGED <<node_url, authorization, op, msg, requests, link,
                   resolverVars, normalizeVars>>

Next ==
    \/ SubmitBatches
    \/ SubmitBatchesThen
    \/ BatchStatus
    \/ BatchStatusThen

Spec == Init /\ [][Next]_vars

(***************************************************************************)
(* Claims about the resolver (checked under SpecResolver).                 *)
(***************************************************************************)
Resolved == rs_res # Pending

(* No occurrence of the delimiter in s. *)
NoDelim(s) == \A i \in 1..(Len(s) - 1) : SubSeq(s, i, i + 1) # Delim

(* The delimiter occurs and nothing follows its first occurrence. *)
EndsAtDelim(s) == \E i \in 1..(Len(s) - 1) :
    /\ SubSeq(s, i, i + 1) = Delim
    /\ NoDelim(SubSeq(s, 1, i))
    /\ i + 1 = Len(s)

(* C4: resolving the empty string, a string without "::" or a string that  *)
(* ends exactly at the delimiter fails with BadRequest.                    *)
C4_RejectsIncomplete ==
    (Resolved /\ (rs_s = <<>> \/ NoDelim(rs_s) \/ EndsAtDelim(rs_s)))
        => rs_res.kind = "BadRequest"

(* C5: every address the resolver returns has a non-empty circuit_id and a *)
(* non-empty service_id.                                                   *)
C5_BothNonEmpty ==
    (Resolved /\ rs_res.kind = "Ok")
        => rs_res.value.circuit_id # <<>> /\ rs_res.value.service_id # <<>>

(* The input is a \o "::" \o b with the delimiter at position k. *)
SplitsAt(s, k) == k + 1 <= Len(s) /\ SubSeq(s, k, k + 1) = Delim
LeftOf(s, k) == SubSeq(s, 1, k - 1)
RightOf(s, k) == SubSeq(s, k + 2, Len(s))

(* Whenever resolution succeeds, the result is the text before the first   *)
(* delimiter and the text between the first and the second delimiter (or   *)
(* the end); whatever follows a second delimiter is ignored.               *)
FirstTwoSegments ==
    (Resolved /\ rs_res.kind = "Ok") =>
        LET c == rs_res.value.circuit_id
            v == rs_res.value.service_id
            n == Len(c)
            m == Len(v)
        IN /\ n + 2 + m <= Len(rs_s)
           /\ SubSeq(rs_s, 1, n) = c
           /\ SubSeq(rs_s, n + 1, n + 2) = Delim
           /\ SubSeq(rs_s, n + 3, n + 2 + m) = v
           /\ \A i \in 1..n : SubSeq(rs_s, i, i + 1) # Delim
           /\ NoDelim(v)
           /\ \/ n + 2 + m = Len(rs_s)
              \/ /\ n + 4 + m <= Len(rs_s)
                 /\ SubSeq(rs_s, n + 3 + m, n + 4 + m) = Delim

(* C6 as stated: for all non-empty a, b without "::", "a::b" resolves to   *)
(* (a, b) verbatim; and a success is always the first two segments.        *)
C6_VerbatimPair ==
    /\ Resolved =>
         \A k \in 1..Len(rs_s) :
            (/\ SplitsAt(rs_s, k)
             /\ LeftOf(rs_s, k) # <<>> /\ RightOf(rs_s, k) # <<>>
             /\ NoDelim(LeftOf(rs_s, k)) /\ NoDelim(RightOf(rs_s, k)))
            => rs_res = Ok([circuit_id |-> LeftOf(rs_s, k),
                            service_id |-> RightOf(rs_s, k)])
    /\ FirstTwoSegments

(* C6 amended: the same for every a that does not end with ":".            *)
C6_VerbatimPairNoTrailingColon ==
    /\ Resolved =>
         \A k \in 1..Len(rs_s) :
            (/\ SplitsAt(rs_s, k)
             /\ LeftOf(rs_s, k) # <<>> /\ RightOf(rs_s, k) # <<>>
             /\ NoDelim(LeftOf(rs_s, k)) /\ NoDelim(RightOf(rs_s, k))
             /\ LeftOf(rs_s, k)[k - 1] # ":")
            => rs_res = Ok([circuit_id |-> LeftOf(rs_s, k),
                            service_id |-> RightOf(rs_s, k)])
    /\ FirstTwoSegments

(* A three-segment input "a::b::a" resolved to its first two segments.     *)
C6_Witness ==
    /\ rs_s = <<"a", ":", ":", "b", ":", ":", "a">>
    /\ Resolved
    /\ rs_res = Ok([circuit_id |-> <<"a">>, service_id |-> <<"b">>])

(***************************************************************************)
(* Claims about the client (checked under Spec).                           *)
(***************************************************************************)
TransportFailed == response.some /\ ~response.value.ok
TransportSucceeded == response.some /\ response.value.ok

(* C1: an invocation of either operation that ends in BadRequest has       *)
(* issued no HTTP request.                                                 *)
C1_BadRequestBeforeNetwork ==
    (pc = "completed" /\ result.kind = "BadRequest") => requests = <<>>

(* submit_batches rejected a batch list that does not serialize, the last  *)
(* of its checks, for a service id that resolves.                          *)
C1_Witness ==
    /\ pc = "completed"
    /\ op = "submit_batches"
    /\ result.kind = "BadRequest"
    /\ msg.value.service_id.some
    /\ from_str(msg.value.service_id.value).kind = "Ok"
    /\ ~msg.value.batch_list.initialized
    /\ requests = <<>>

MethodOf(name) == IF name = "submit_batches" THEN "POST" ELSE "GET"

(* C2: an invocation issues at most one request, a POST for submit_batches *)
(* and a GET for batch_status; an invocation in flight issued exactly one, *)
(* and its next step, whatever the transport hands back, completes it      *)
(* without another request; after a transport failure it is completed with *)
(* an error.                                                               *)
C2_SingleAttempt ==
    [][/\ Len(requests') <= 1
       /\ \A i \in 1..Len(requests') : requests'[i].method = MethodOf(op')
       /\ pc' = "in_flight" => Len(requests') = 1
       /\ pc = "in_flight" =>
            /\ pc' = "completed"
            /\ requests' = requests
            /\ (response'.some /\ ~response'.value.ok)
                  => result'.kind \in {"InternalError", "BadRequest"}]_vars

(* An invocation completed after a transport failure, with its one request. *)
C2_Witness ==
    /\ pc = "completed"
    /\ TransportFailed
    /\ Len(requests) = 1
    /\ result.kind = "InternalError"

(* C3: after a transport failure the invocation is completed with          *)
(* InternalError, whose message ends with the transport error's text.      *)
C3_TransportFailureIsInternal ==
    (pc = "completed" /\ TransportFailed) =>
        /\ result.kind = "InternalError"
        /\ result.message[Len(result.message)] = response.value.err

(* batch_status completed after the transport failed. *)
C3_Witness ==
    /\ pc = "completed"
    /\ op = "batch_status"
    /\ TransportFailed
    /\ result = InternalError(<<"Unable to retrieve batch statuses: ",
                                "connection refused">>)

(* The text between the i-th and the j-th character of s, both included. *)
Mid(s, i, j) == SubSeq(s, i, j)

(* s is the elements of ss joined by commas. *)
IsCommaJoined(s, ss) == IF ss = <<>> THEN s = <<>> ELSE Split(s, Comma) = ss

DigitValue(c) == CHOOSE d \in 0..9 : Digits[d + 1] = c

RECURSIVE ParseNat(_)
ParseNat(s) ==
    IF Len(s) = 1 THEN DigitValue(s[1])
    ELSE 10 * ParseNat(SubSeq(s, 1, Len(s) - 1)) + DigitValue(s[Len(s)])

IsDecimal(s) == s # <<>> /\ \A i \in 1..Len(s) : \E d \in 1..10 : Digits[d] = s[i]

IsIdsSegment(s, ids) ==
    /\ Mid(s, 1, Len(IdsEq)) = IdsEq
    /\ IsCommaJoined(Mid(s, Len(IdsEq) + 1, Len(s)), ids)

(* C9: the URL batch_status requests is                                    *)
(* {base_url}/scabbard/{circuit_id}/{service_id}/batch_statuses? followed, *)
(* if and only if wait is present, by wait={seconds}&, followed by ids=    *)
(* and the batch ids joined by commas in order.                            *)
C9_StatusUrl ==
    (op = "batch_status" /\ requests # <<>>) =>
        LET m == msg.value
            url == requests[1].url
            addr == from_str(m.service_id.value).value
            path == node_url \o ScabbardPath \o addr.circuit_id \o Slash
                    \o addr.service_id \o BatchStatusesPath
            query == Mid(url, Len(path) + 1, Len(url))
            amp == Find(query, Amp)
        IN /\ Mid(url, 1, Len(path)) = path
           /\ IF m.wait.some
              THEN /\ Mid(query, 1, Len(WaitEq)) = WaitEq
                   /\ amp > 0
                   /\ IsDecimal(Mid(query, Len(WaitEq) + 1, amp - 1))
                   /\ ParseNat(Mid(query, Len(WaitEq) + 1, amp - 1)) = m.wait.value
                   /\ IsIdsSegment(Mid(query, amp + 1, Len(query)), m.batch_ids)
              ELSE /\ Find(url, WaitEq) = 0
                   /\ IsIdsSegment(query, m.batch_ids)

(* The spec's example: wait = Some(30) gives wait=30&ids=... *)
C9_Witness ==
    /\ op = "batch_status"
    /\ Len(requests) = 1
    /\ msg.value.wait = Some(30)
    /\ msg.value.batch_ids = <<<<"i", "d", "1">>, <<"i", "d", "2">>>>
    /\ node_url = <<"h", "t", "t", "p", ":", "/", "/", "n">>
    /\ msg.value.service_id = Some(<<"c", "1", ":", ":", "s", "1">>)
    /\ requests[1].url =
         <<"h", "t", "t", "p", ":", "/", "/", "n",
           "/", "s", "c", "a", "b", "b", "a", "r", "d", "/", "c", "1", "/", "s", "1",
           "/", "b", "a", "t", "c", "h", "_", "s", "t", "a", "t", "u", "s", "e", "s", "?",
           "w", "a", "i", "t", "=", "3", "0", "&",
           "i", "d", "s", "=", "i", "d", "1", ",", "i", "d", "2">>

(* C10: once submit_batches has issued its POST, a response of any status  *)
(* code completes it with the link, and it completes with an error only    *)
(* when the transport failed.                                              *)
C10_StatusCodeBlind ==
    (pc = "completed" /\ op = "submit_batches" /\ requests # <<>>) =>
        /\ TransportSucceeded => result = Ok([link |-> link.value])
        /\ result.kind # "Ok" => TransportFailed

(* submit_batches completed with the link after a 404 response. *)
C10_Witness ==
    /\ pc = "completed"
    /\ op = "submit_batches"
    /\ TransportSucceeded
    /\ response.value.status = 404
    /\ result.kind = "Ok"

(***************************************************************************)
(* Claims about the normalization (checked under SpecNormalize).           *)
(***************************************************************************)
B64Value(c) == CHOOSE n \in 0..63 : B64Chars[n + 1] = c

RECURSIVE base64_decode(_)
base64_decode(s) ==
    IF Len(s) < 4 THEN <<>>
    ELSE LET a == B64Value(s[1])
             b == B64Value(s[2])
         IN IF s[3] = "=" THEN <<a * 4 + b \div 16>>
            ELSE IF s[4] = "="
            THEN <<a * 4 + b \div 16, (b % 16) * 16 + B64Value(s[3]) \div 4>>
            ELSE <<a * 4 + b \div 16,
                   (b % 16) * 16 + B64Value(s[3]) \div 4,
                   (B64Value(s[3]) % 4) * 64 + B64Value(s[4])>>
                 \o base64_decode(SubSeq(s, 5, Len(s)))

(* C8: the normalized status keeps id and statusType, and its              *)
(* invalid_transactions are, in the order of message, one entry for each   *)
(* message entry with both error_message and error_data (the transaction   *)
(* id, the error message, the base64 text of the data) and nothing for     *)
(* the other entries.                                                      *)
C8_NormalizeKeepsComplete ==
    nb_out # Pending =>
        LET in == nb_in.value
            out == nb_out.value
            msgs == in.status.message
            kept == {i \in 1..Len(msgs) :
                        msgs[i].error_message.some /\ msgs[i].error_data.some}
            rank(i) == Cardinality({j \in kept : j <= i})
        IN /\ out.id = in.id
           /\ out.status = in.status.status_type
           /\ Len(out.invalid_transactions) = Cardinality(kept)
           /\ \A i \in kept :
                LET tx == out.invalid_transactions[rank(i)]
                    data == msgs[i].error_data.value
                IN /\ tx.id = msgs[i].transaction_id
                   /\ tx.message = msgs[i].error_message.value
                   /\ Len(tx.extended_data) = 4 * ((Len(data) + 2) \div 3)
                   /\ base64_decode(tx.extended_data) = data

(* The spec's example: t1 with "bad" and [1,2,3] is kept as AQID, t2 with  *)
(* neither field is dropped.                                               *)
C8_Witness ==
    /\ nb_in = Some(SpecExampleStatus)
    /\ nb_out = Ok([id |-> "b1",
                    status |-> "INVALID",
                    invalid_transactions |->
                        <<[id |-> "t1", message |-> "bad",
                           extended_data |-> <<"A", "Q", "I", "D">>]>>])

====
